---- MODULE Spec2Model ----
(***************************************************************************)
(* Model of the virtual joystick binding (joystick.go): CreateJoystick,    *)
(* SetAxis, SetButton and Close over one uinput device file.               *)
(*                                                                         *)
(* The device file, the kernel side of the handle (registered event        *)
(* classes and codes, the created device, the stream of event records it   *)
(* received) and the position of every call are the state.  Every call of  *)
(* the operating system (open, ioctl, write, close) is one step; whether   *)
(* it succeeds is the kernel's choice.                                     *)
(***************************************************************************)
EXTENDS Integers, Sequences, FiniteSets, TLC

(* ---------------- bounds of the model ---------------- *)
MaxAxes == 2
MaxButtons == 2
MaxCalls == 3
MaxConcCalls == 3

(* ---------------- constants of the binding ---------------- *)
absSize == 64
uinputMaxNameSize == 80
evSyn == "EV_SYN"
evKey == "EV_KEY"
evAbs == "EV_ABS"
synReport == 0
uiSetEvBit == "UI_SET_EVBIT"
uiSetKeyBit == "UI_SET_KEYBIT"
uiSetAbsBit == "UI_SET_ABSBIT"
uiDevCreate == "UI_DEV_CREATE"
busUsb == 6
vendorID == 1
productID == 2
versionID == 3

Nil == "nil"
vJoystick(n, f) == [name |-> n, deviceFile |-> f]
NoJoystick == vJoystick(<<>>, Nil)
Threads == {1, 2}

(* ---------------- inputs ---------------- *)
FileSystem == {"/dev/uinput"}
Paths == {"", "/dev/missing", "/dev/uinput"}
MkName(n) == [i \in 1..n |-> 97]
Names == {MkName(n) : n \in {0, 1, uinputMaxNameSize, uinputMaxNameSize + 1}}
AxisIDs == {0, absSize - 1, absSize}
Ranges == {<<-32767, 32767>>, <<0, 255>>}
AxisDecls == {[ID |-> i, Min |-> r[1], Max |-> r[2]] : i \in AxisIDs, r \in Ranges}
ButtonIDs == {0, 1}
ButtonDecls == {[ID |-> i] : i \in ButtonIDs}
SeqUpTo(S, n) == UNION {[1..k -> S] : k \in 0..n}
RunAxisIDs == {0, 1}
RunButtonIDs == {0, 1}
AxisValues == {-2147483647, 15000, 2147483647}
ConcAxisIDs == {0}
ConcButtonIDs == {0}

VARIABLES
    path, name, axes, buttons,  \* the arguments of CreateJoystick
    pc,                         \* position of the CreateJoystick call
    idx,                        \* index of the button / axis loop
    file,                       \* deviceFile: Nil, "open" or "closed"
    openHandles,                \* number of open handles of the process
    evbits, keybits, absbits,   \* what the kernel registered on the handle
    absMin, absMax,             \* the range tables of createJoystick
    indexed,                    \* ids the range tables were indexed with
    dev,                        \* descriptors of the devices created on the handle
    joystick, err,              \* what CreateJoystick returned
    ioLog,                      \* every call made on the handle, in order
    stream, writer,             \* event records the device received, and the call that wrote each
    th,                         \* position of every caller thread
    calls                       \* the runtime calls that returned, in order

vars == <<path, name, axes, buttons, pc, idx, file, openHandles, evbits, keybits,
          absbits, absMin, absMax, indexed, dev, joystick, err, ioLog, stream,
          writer, th, calls>>

args == <<path, name, axes, buttons>>
kernel == <<evbits, keybits, absbits, dev>>
tables == <<absMin, absMax, indexed>>
runtime == <<stream, writer, th, calls>>

ZeroTable == [i \in 0..(absSize - 1) |-> 0]
Idle == [pc |-> "idle", op |-> Nil, code |-> 0, value |-> 0, on |-> FALSE, id |-> 0,
         before |-> 0]

IoRec(op, req, arg, ok, by) == [op |-> op, req |-> req, arg |-> arg, ok |-> ok, by |-> by]

(* ---------------- helpers of the binding ---------------- *)
validateDevicePath(p) == p # "" /\ p \in FileSystem

validateUinputName(n) == Len(n) > 0 /\ Len(n) <= uinputMaxNameSize

toUinputName(n) ==
    [i \in 1..uinputMaxNameSize |-> IF i <= Len(n) THEN n[i] ELSE 0]

\* what an ioctl on the handle may answer: the kernel may refuse any request,
\* and always refuses an axis code outside its table
IoctlOutcomes(f, req, arg) ==
    IF f # "open" THEN {FALSE}
    ELSE IF req = uiSetAbsBit /\ arg >= absSize THEN {FALSE}
    ELSE BOOLEAN

\* what a write on the handle may answer
WriteOutcomes(f) == IF f = "open" THEN BOOLEAN ELSE {FALSE}

\* what closing the handle answers: an error when it is already closed
CloseOutcome(f) == f = "open"

FileAfterClose(f) == IF f = "open" THEN "closed" ELSE f
HandlesAfterClose(f, n) == IF f = "open" THEN n - 1 ELSE n

InitCommon ==
    /\ pc = "start"
    /\ idx = 0
    /\ file = Nil
    /\ openHandles = 0
    /\ evbits = {}
    /\ keybits = {}
    /\ absbits = {}
    /\ absMin = ZeroTable
    /\ absMax = ZeroTable
    /\ indexed = {}
    /\ dev = {}
    /\ joystick = NoJoystick
    /\ err = Nil
    /\ ioLog = <<>>
    /\ stream = <<>>
    /\ writer = <<>>
    /\ th = [t \in Threads |-> Idle]
    /\ calls = <<>>

\* every declaration a caller can pass
InitCreate ==
    /\ path \in Paths
    /\ name \in Names
    /\ axes \in SeqUpTo(AxisDecls, MaxAxes)
    /\ buttons \in SeqUpTo(ButtonDecls, MaxButtons)
    /\ InitCommon

(* ---------------- CreateJoystick ---------------- *)
Fail(e) ==
    /\ pc' = "failed"
    /\ err' = e
    /\ joystick' = NoJoystick

\* Validate without the check of the name
ValidatePathOnly ==
    /\ pc = "start"
    /\ IF ~validateDevicePath(path) THEN Fail("InvalidPathError")
       ELSE pc' = "open" /\ UNCHANGED <<err, joystick>>
    /\ UNCHANGED <<args, idx, file, openHandles, kernel, tables, ioLog, runtime>>

\* CreateJoystick, up to the call of createJoystick
Validate ==
    /\ pc = "start"
    /\ IF ~validateDevicePath(path) THEN Fail("InvalidPathError")
       ELSE IF ~validateUinputName(name) THEN Fail("InvalidNameError")
       ELSE pc' = "open" /\ UNCHANGED <<err, joystick>>
    /\ UNCHANGED <<args, idx, file, openHandles, kernel, tables, ioLog, runtime>>

\* createDeviceFile(path)
OpenDevice ==
    /\ pc = "open"
    /\ \E ok \in BOOLEAN :
        /\ ioLog' = Append(ioLog, IoRec("open", Nil, 0, ok, 0))
        /\ IF ok
           THEN /\ file' = "open"
                /\ openHandles' = openHandles + 1
                /\ pc' = "evkey"
                /\ UNCHANGED <<err, joystick>>
           ELSE /\ Fail("DeviceOpenError")
                /\ UNCHANGED <<file, openHandles>>
    /\ UNCHANGED <<args, idx, kernel, tables, runtime>>

\* the error return of a failed construction step without deviceFile.Close()
FailWithoutClose(e, log) ==
    /\ ioLog' = log
    /\ UNCHANGED <<file, openHandles>>
    /\ Fail(e)

\* deviceFile.Close() and the error return of a failed construction step
CloseAndFail(e, log) ==
    /\ ioLog' = Append(log, IoRec("close", Nil, 0, CloseOutcome(file), 0))
    /\ file' = FileAfterClose(file)
    /\ openHandles' = HandlesAfterClose(file, openHandles)
    /\ Fail(e)

AfterKeyClass == IF Len(buttons) = 0 THEN "evabs" ELSE "buttons"
AfterButton(i) == IF i = Len(buttons) THEN "evabs" ELSE "buttons"
AfterAbsClass == IF Len(axes) = 0 THEN "activate" ELSE "axes"
AfterAxis(i) == IF i = Len(axes) THEN "activate" ELSE "axes"

\* registerDevice(deviceFile, evKey)
RegisterKeyClass ==
    /\ pc = "evkey"
    /\ \E ok \in IoctlOutcomes(file, uiSetEvBit, evKey) :
        /\ IF ok
           THEN /\ ioLog' = Append(ioLog, IoRec("ioctl", uiSetEvBit, evKey, ok, 0))
                /\ evbits' = evbits \cup {evKey}
                /\ pc' = AfterKeyClass
                /\ idx' = 1
                /\ UNCHANGED <<file, openHandles, err, joystick>>
           ELSE /\ CloseAndFail("CapabilityRegistrationError",
                                Append(ioLog, IoRec("ioctl", uiSetEvBit, evKey, ok, 0)))
                /\ UNCHANGED <<evbits, idx>>
    /\ UNCHANGED <<args, keybits, absbits, dev, tables, runtime>>

\* a round of the button loop that drops the error of the registration
RegisterButtonIgnoreError ==
    /\ pc = "buttons"
    /\ \E ok \in IoctlOutcomes(file, uiSetKeyBit, buttons[idx].ID) :
        /\ ioLog' = Append(ioLog, IoRec("ioctl", uiSetKeyBit, buttons[idx].ID, ok, 0))
        /\ keybits' = IF ok THEN keybits \cup {buttons[idx].ID} ELSE keybits
        /\ pc' = AfterButton(idx)
        /\ idx' = IF idx = Len(buttons) THEN 1 ELSE idx + 1
        /\ UNCHANGED <<file, openHandles, err, joystick>>
    /\ UNCHANGED <<args, evbits, absbits, dev, tables, runtime>>

\* a button loop that runs over the declaration from its last entry to its first
RegisterButtonReversed ==
    /\ pc = "buttons"
    /\ LET btn == buttons[Len(buttons) + 1 - idx]
       IN  \E ok \in IoctlOutcomes(file, uiSetKeyBit, btn.ID) :
            /\ IF ok
               THEN /\ ioLog' = Append(ioLog, IoRec("ioctl", uiSetKeyBit, btn.ID, ok, 0))
                    /\ keybits' = keybits \cup {btn.ID}
                    /\ pc' = AfterButton(idx)
                    /\ idx' = IF idx = Len(buttons) THEN 1 ELSE idx + 1
                    /\ UNCHANGED <<file, openHandles, err, joystick>>
               ELSE /\ CloseAndFail("CapabilityRegistrationError",
                                    Append(ioLog, IoRec("ioctl", uiSetKeyBit, btn.ID, ok, 0)))
                    /\ UNCHANGED <<keybits, idx>>
    /\ UNCHANGED <<args, evbits, absbits, dev, tables, runtime>>

\* one round of the button loop
RegisterButton ==
    /\ pc = "buttons"
    /\ \E ok \in IoctlOutcomes(file, uiSetKeyBit, buttons[idx].ID) :
        /\ IF ok
           THEN /\ ioLog' = Append(ioLog, IoRec("ioctl", uiSetKeyBit, buttons[idx].ID, ok, 0))
                /\ keybits' = keybits \cup {buttons[idx].ID}
                /\ pc' = AfterButton(idx)
                /\ idx' = IF idx = Len(buttons) THEN 1 ELSE idx + 1
                /\ UNCHANGED <<file, openHandles, err, joystick>>
           ELSE /\ CloseAndFail("CapabilityRegistrationError",
                                Append(ioLog, IoRec("ioctl", uiSetKeyBit, buttons[idx].ID, ok, 0)))
                /\ UNCHANGED <<keybits, idx>>
    /\ UNCHANGED <<args, evbits, absbits, dev, tables, runtime>>

\* registerDevice(deviceFile, evAbs)
RegisterAbsClass ==
    /\ pc = "evabs"
    /\ \E ok \in IoctlOutcomes(file, uiSetEvBit, evAbs) :
        /\ IF ok
           THEN /\ ioLog' = Append(ioLog, IoRec("ioctl", uiSetEvBit, evAbs, ok, 0))
                /\ evbits' = evbits \cup {evAbs}
                /\ pc' = AfterAbsClass
                /\ idx' = 1
                /\ UNCHANGED <<file, openHandles, err, joystick>>
           ELSE /\ CloseAndFail("CapabilityRegistrationError",
                                Append(ioLog, IoRec("ioctl", uiSetEvBit, evAbs, ok, 0)))
                /\ UNCHANGED <<evbits, idx>>
    /\ UNCHANGED <<args, keybits, absbits, dev, tables, runtime>>

\* a store that keeps the range of the first declaration of an axis id
StoreRangeFirstWins(axis) ==
    /\ indexed' = indexed \cup {axis.ID}
    /\ IF axis.ID < absSize
       THEN /\ absMin' = IF axis.ID \in indexed THEN absMin
                         ELSE [absMin EXCEPT ![axis.ID] = axis.Min]
            /\ absMax' = IF axis.ID \in indexed THEN absMax
                         ELSE [absMax EXCEPT ![axis.ID] = axis.Max]
            /\ pc' = AfterAxis(idx)
            /\ idx' = IF idx = Len(axes) THEN 1 ELSE idx + 1
            /\ UNCHANGED <<file, openHandles, err, joystick>>
       ELSE /\ pc' = "panic"
            /\ UNCHANGED <<absMin, absMax, idx, file, openHandles, err, joystick>>

\* absMin[axis.ID] = axis.Min; absMax[axis.ID] = axis.Max: an index outside the
\* table stops the program
StoreRange(axis) ==
    /\ indexed' = indexed \cup {axis.ID}
    /\ IF axis.ID < absSize
       THEN /\ absMin' = [absMin EXCEPT ![axis.ID] = axis.Min]
            /\ absMax' = [absMax EXCEPT ![axis.ID] = axis.Max]
            /\ pc' = AfterAxis(idx)
            /\ idx' = IF idx = Len(axes) THEN 1 ELSE idx + 1
            /\ UNCHANGED <<file, openHandles, err, joystick>>
       ELSE /\ pc' = "panic"
            /\ UNCHANGED <<absMin, absMax, idx, file, openHandles, err, joystick>>

\* a round of the axis loop that stores the range before it looks at the error
AxisRoundStoreFirst(axis, ok) ==
    /\ ioLog' = Append(ioLog, IoRec("ioctl", uiSetAbsBit, axis.ID, ok, 0))
    /\ absbits' = IF ok THEN absbits \cup {axis.ID} ELSE absbits
    /\ StoreRange(axis)

\* one round of the axis loop
AxisRound(axis, ok) ==
    IF ok
       THEN /\ ioLog' = Append(ioLog, IoRec("ioctl", uiSetAbsBit, axis.ID, ok, 0))
            /\ absbits' = absbits \cup {axis.ID}
            /\ StoreRange(axis)
       ELSE /\ CloseAndFail("CapabilityRegistrationError",
                            Append(ioLog, IoRec("ioctl", uiSetAbsBit, axis.ID, ok, 0)))
            /\ UNCHANGED <<absbits, idx, tables>>

RegisterAxis ==
    /\ pc = "axes"
    /\ \E ok \in IoctlOutcomes(file, uiSetAbsBit, axes[idx].ID) :
        AxisRound(axes[idx], ok)
    /\ UNCHANGED <<args, evbits, keybits, dev, runtime>>

uinputUserDev ==
    [Name |-> toUinputName(name),
     ID |-> [Bustype |-> busUsb, Vendor |-> vendorID, Product |-> productID,
             Version |-> versionID],
     Absmin |-> absMin,
     Absmax |-> absMax]

\* a failed createUsbDevice closes the handle before it returns its error
createUsbDeviceFailed(log) ==
    /\ ioLog' = Append(log, IoRec("close", Nil, 0, CloseOutcome(file), 0))
    /\ file' = FileAfterClose(file)
    /\ openHandles' = HandlesAfterClose(file, openHandles)
    /\ Fail("DeviceActivationError")

\* createUsbDevice(deviceFile, uinputUserDev{...}) and the return of CreateJoystick
Activate ==
    /\ pc = "activate"
    /\ \E ok \in IoctlOutcomes(file, uiDevCreate, 0) :
        /\ IF ok
           THEN /\ ioLog' = Append(ioLog, IoRec("create", uiDevCreate, 0, ok, 0))
                /\ dev' = {uinputUserDev}
                /\ pc' = "active"
                /\ err' = Nil
                /\ joystick' = vJoystick(name, "deviceFile")
                /\ UNCHANGED <<file, openHandles>>
           ELSE /\ createUsbDeviceFailed(
                       Append(ioLog, IoRec("create", uiDevCreate, 0, ok, 0)))
                /\ UNCHANGED dev
    /\ UNCHANGED <<args, idx, evbits, keybits, absbits, tables, runtime>>

Construct ==
    \/ Validate
    \/ OpenDevice
    \/ RegisterKeyClass
    \/ RegisterButton
    \/ RegisterAbsClass
    \/ RegisterAxis
    \/ Activate

(* ---------------- runtime calls ---------------- *)
Timeval(sec, usec) == [Sec |-> sec, Usec |-> usec]

\* an axis event whose value is clamped to the range declared for the axis
AxisEventClamped(axis, pos) ==
    [Time |-> Timeval(0, 0), Type |-> evAbs, Code |-> axis,
     Value |-> IF pos > absMax[axis] THEN absMax[axis]
               ELSE IF pos < absMin[axis] THEN absMin[axis] ELSE pos]

\* the event sendAxisEvent builds: var e inputEvent leaves Time zero
AxisEvent(axis, pos) ==
    [Time |-> Timeval(0, 0), Type |-> evAbs, Code |-> axis, Value |-> pos]

\* the event SetButton builds
KeyEvent(button, on) ==
    [Time |-> Timeval(0, 0), Type |-> evKey, Code |-> button,
     Value |-> IF on THEN 1 ELSE 0]

\* the event syncEvents writes
SyncEvent == [Time |-> Timeval(0, 0), Type |-> evSyn, Code |-> synReport, Value |-> 0]

\* the record as laid out on the wire: seconds, microseconds, type, code, value
inputEventToBuffer(e) == <<e.Time.Sec, e.Time.Usec, e.Type, e.Code, e.Value>>

SyncBuffer == inputEventToBuffer(SyncEvent)

\* number of runtime calls entered so far
Started == Len(calls) + Cardinality({t \in Threads : th[t].pc # "idle"})

CallRec(c, e) ==
    [id |-> c.id, op |-> c.op, code |-> c.code, value |-> c.value, on |-> c.on,
     before |-> c.before, err |-> e]

\* a write of the record whose error is dropped: the call goes on to the sync
WriteRecordIgnoreError(t, c, buf, ok) ==
    /\ ioLog' = Append(ioLog, IoRec("write", Nil, 0, ok, c.id))
    /\ stream' = IF ok THEN Append(stream, buf) ELSE stream
    /\ writer' = IF ok THEN Append(writer, c.id) ELSE writer
    /\ th' = [th EXCEPT ![t] = c]
    /\ UNCHANGED calls

\* deviceFile.Write(buf) by call c: the device receives the record when the
\* write succeeds; a failed write makes the call return its error
WriteRecord(t, c, buf, ok) ==
    /\ ioLog' = Append(ioLog, IoRec("write", Nil, 0, ok, c.id))
    /\ IF ok
       THEN /\ stream' = Append(stream, buf)
            /\ writer' = Append(writer, c.id)
            /\ th' = [th EXCEPT ![t] = c]
            /\ UNCHANGED calls
       ELSE /\ calls' = Append(calls, CallRec(c, TRUE))
            /\ UNCHANGED <<stream, writer, th>>

\* a SetAxis that refuses a closed device file without writing to it
SetAxisGuarded(t, max, ids) ==
    /\ pc = "active"
    /\ th[t].pc = "idle"
    /\ Started < max
    /\ \E axis \in ids, x \in AxisValues, ok \in WriteOutcomes(file) :
        LET c == [pc |-> "sync", op |-> "SetAxis", code |-> axis, value |-> x,
                  on |-> FALSE, id |-> Started + 1, before |-> Len(stream)]
        IN  IF file = "closed"
            THEN /\ calls' = Append(calls, CallRec(c, TRUE))
                 /\ UNCHANGED <<ioLog, stream, writer, th>>
            ELSE WriteRecord(t, c, inputEventToBuffer(AxisEvent(axis, x)), ok)
    /\ UNCHANGED <<args, pc, idx, file, openHandles, kernel, tables, joystick, err>>

\* a SetAxis that refuses an axis the declaration does not name, without writing
SetAxisDeclaredOnly(t, max, ids) ==
    /\ pc = "active"
    /\ th[t].pc = "idle"
    /\ Started < max
    /\ \E axis \in ids, x \in AxisValues, ok \in WriteOutcomes(file) :
        LET c == [pc |-> "sync", op |-> "SetAxis", code |-> axis, value |-> x,
                  on |-> FALSE, id |-> Started + 1, before |-> Len(stream)]
        IN  IF axis \notin {axes[i].ID : i \in 1..Len(axes)}
            THEN /\ calls' = Append(calls, CallRec(c, TRUE))
                 /\ UNCHANGED <<ioLog, stream, writer, th>>
            ELSE WriteRecord(t, c, inputEventToBuffer(AxisEvent(axis, x)), ok)
    /\ UNCHANGED <<args, pc, idx, file, openHandles, kernel, tables, joystick, err>>

\* SetAxis(axis, x), up to the write of the record in sendAxisEvent
SetAxis(t, max, ids) ==
    /\ pc = "active"
    /\ th[t].pc = "idle"
    /\ Started < max
    /\ \E axis \in ids, x \in AxisValues, ok \in WriteOutcomes(file) :
        WriteRecord(t,
                    [pc |-> "sync", op |-> "SetAxis", code |-> axis, value |-> x,
                     on |-> FALSE, id |-> Started + 1, before |-> Len(stream)],
                    inputEventToBuffer(AxisEvent(axis, x)),
                    ok)
    /\ UNCHANGED <<args, pc, idx, file, openHandles, kernel, tables, joystick, err>>

\* the value of the last key record the device received for a button, or -1
LastKeyValue(button) ==
    LET P == {p \in 1..Len(stream) : stream[p][3] = evKey /\ stream[p][4] = button}
    IN  IF P = {} THEN -1 ELSE stream[CHOOSE p \in P : \A q \in P : q <= p][5]

\* a SetButton that drops a call repeating the state the button already has
SetButtonDebounced(t, max, ids) ==
    /\ pc = "active"
    /\ th[t].pc = "idle"
    /\ Started < max
    /\ \E button \in ids, on \in BOOLEAN, ok \in WriteOutcomes(file) :
        LET c == [pc |-> "sync", op |-> "SetButton", code |-> button, value |-> 0,
                  on |-> on, id |-> Started + 1, before |-> Len(stream)]
        IN  IF LastKeyValue(button) = KeyEvent(button, on).Value
            THEN /\ calls' = Append(calls, CallRec(c, FALSE))
                 /\ UNCHANGED <<ioLog, stream, writer, th>>
            ELSE WriteRecord(t, c, inputEventToBuffer(KeyEvent(button, on)), ok)
    /\ UNCHANGED <<args, pc, idx, file, openHandles, kernel, tables, joystick, err>>

\* a SetButton that waits while another call is between its record and its sync
SetButtonLocked(t, max, ids) ==
    /\ pc = "active"
    /\ th[t].pc = "idle"
    /\ \A u \in Threads : th[u].pc = "idle"
    /\ Started < max
    /\ \E button \in ids, on \in BOOLEAN, ok \in WriteOutcomes(file) :
        WriteRecord(t,
                    [pc |-> "sync", op |-> "SetButton", code |-> button, value |-> 0,
                     on |-> on, id |-> Started + 1, before |-> Len(stream)],
                    inputEventToBuffer(KeyEvent(button, on)),
                    ok)
    /\ UNCHANGED <<args, pc, idx, file, openHandles, kernel, tables, joystick, err>>

\* SetButton(button, on), up to the write of the record
SetButton(t, max, ids) ==
    /\ pc = "active"
    /\ th[t].pc = "idle"
    /\ Started < max
    /\ \E button \in ids, on \in BOOLEAN, ok \in WriteOutcomes(file) :
        WriteRecord(t,
                    [pc |-> "sync", op |-> "SetButton", code |-> button, value |-> 0,
                     on |-> on, id |-> Started + 1, before |-> Len(stream)],
                    inputEventToBuffer(KeyEvent(button, on)),
                    ok)
    /\ UNCHANGED <<args, pc, idx, file, openHandles, kernel, tables, joystick, err>>

\* syncEvents(deviceFile) and the return of SetAxis / SetButton
SyncResult(t, ok) ==
    /\ ioLog' = Append(ioLog, IoRec("write", Nil, 0, ok, th[t].id))
    /\ stream' = IF ok THEN Append(stream, SyncBuffer) ELSE stream
    /\ writer' = IF ok THEN Append(writer, th[t].id) ELSE writer
    /\ calls' = Append(calls, CallRec(th[t], ~ok))
    /\ th' = [th EXCEPT ![t] = Idle]

syncEvents(t) ==
    /\ th[t].pc = "sync"
    /\ \E ok \in WriteOutcomes(file) : SyncResult(t, ok)
    /\ UNCHANGED <<args, pc, idx, file, openHandles, kernel, tables, joystick, err>>

\* closeDevice(deviceFile)
closeDevice(c) ==
    /\ ioLog' = Append(ioLog, IoRec("close", Nil, 0, CloseOutcome(file), c.id))
    /\ calls' = Append(calls, CallRec(c, ~CloseOutcome(file)))
    /\ file' = FileAfterClose(file)
    /\ openHandles' = HandlesAfterClose(file, openHandles)

\* a Close that is a no-op returning nil on a device file it already closed
CloseOnce(t, max) ==
    /\ pc = "active"
    /\ th[t].pc = "idle"
    /\ Started < max
    /\ LET c == [pc |-> "idle", op |-> "Close", code |-> 0, value |-> 0, on |-> FALSE,
                 id |-> Started + 1, before |-> Len(stream)]
       IN  IF file = "closed"
           THEN /\ calls' = Append(calls, CallRec(c, FALSE))
                /\ UNCHANGED <<ioLog, file, openHandles>>
           ELSE closeDevice(c)
    /\ UNCHANGED <<args, pc, idx, kernel, tables, joystick, err, stream, writer, th>>

\* a Close that returns nil and leaves the device file alone
CloseNoop(t, max) ==
    /\ pc = "active"
    /\ th[t].pc = "idle"
    /\ Started < max
    /\ calls' = Append(calls, CallRec([pc |-> "idle", op |-> "Close", code |-> 0,
                                       value |-> 0, on |-> FALSE, id |-> Started + 1,
                                       before |-> Len(stream)], FALSE))
    /\ UNCHANGED <<args, pc, idx, file, openHandles, kernel, tables, joystick, err,
                   ioLog, stream, writer, th>>

\* Close()
Close(t, max) ==
    /\ pc = "active"
    /\ th[t].pc = "idle"
    /\ Started < max
    /\ closeDevice([pc |-> "idle", op |-> "Close", code |-> 0, value |-> 0,
                    on |-> FALSE, id |-> Started + 1, before |-> Len(stream)])
    /\ UNCHANGED <<args, pc, idx, kernel, tables, joystick, err, stream, writer, th>>

(* ---------------- specifications ---------------- *)
\* construction over every declaration, then Close
NextCreate ==
    \/ Construct
    \/ Close(1, MaxCalls)

SpecCreate == InitCreate /\ [][NextCreate]_vars

\* the scenario device: one axis, one button
ScenarioAxes == <<[ID |-> 0, Min |-> -32767, Max |-> 32767]>>
ScenarioButtons == <<[ID |-> 0]>>

Init ==
    /\ path \in Paths
    /\ name \in {MkName(0), MkName(7)}
    /\ axes = ScenarioAxes
    /\ buttons = ScenarioButtons
    /\ InitCommon

\* one caller: the calls on the joystick are serialized
Next ==
    \/ Construct
    \/ SetAxis(1, MaxCalls, RunAxisIDs)
    \/ SetButton(1, MaxCalls, RunButtonIDs)
    \/ syncEvents(1)
    \/ Close(1, MaxCalls)

Spec == Init /\ [][Next]_vars

\* several callers on the same joystick, no synchronization between them
NextConc ==
    \/ Construct
    \/ \E t \in Threads : SetAxis(t, MaxConcCalls, ConcAxisIDs)
    \/ \E t \in Threads : SetButton(t, MaxConcCalls, ConcButtonIDs)
    \/ \E t \in Threads : syncEvents(t)
    \/ \E t \in Threads : Close(t, MaxConcCalls)

SpecConc == Init /\ [][NextConc]_vars

(* ---------------- properties ---------------- *)
\* the calls made on the handle by runtime call id (0: CreateJoystick)
OpsBy(id) == SelectSeq(ioLog, LAMBDA r : r.by = id)
Opened == \E i \in 1..Len(ioLog) : ioLog[i].op = "open" /\ ioLog[i].ok
SuccessfulCloses == SelectSeq(ioLog, LAMBDA r : r.op = "close" /\ r.ok)
ButtonCodes == {buttons[i].ID : i \in 1..Len(buttons)}
AxisCodes == {axes[i].ID : i \in 1..Len(axes)}

\* C1: CreateJoystick is all-or-nothing.  Once it has returned an error no
\* joystick was returned and the handle it opened is closed, whichever step
\* failed; a joystick is returned only with both classes, every declared
\* button and axis registered and the device created, and until the first
\* Close its handle is open.
CreateAllOrNothing ==
    /\ pc = "failed" =>
          /\ joystick = NoJoystick
          /\ err # Nil
          /\ file # "open"
          /\ openHandles = 0
          /\ Opened => file = "closed" /\ Len(SuccessfulCloses) = 1
    /\ joystick # NoJoystick =>
          /\ pc = "active"
          /\ err = Nil
          /\ {evKey, evAbs} \subseteq evbits
          /\ ButtonCodes \subseteq keybits
          /\ AxisCodes \subseteq absbits
          /\ dev # {}
          /\ calls = <<>> => file = "open" /\ openHandles = 1
    /\ pc = "active" => joystick # NoJoystick

\* C1 witness: the registration of the second axis failed, after the key
\* class, two buttons, the abs class and the first axis were registered
AxisFailureClosed ==
    /\ pc = "failed"
    /\ file = "closed"
    /\ Len(buttons) = 2
    /\ ButtonCodes \subseteq keybits
    /\ Len(axes) = 2
    /\ axes[1].ID \in absbits
    /\ axes[2].ID < absSize
    /\ axes[2].ID \notin absbits

NameInvalid == Len(name) = 0 \/ Len(name) > uinputMaxNameSize
PathInvalid == path \notin FileSystem

\* C2: validation precedes any handle allocation.  With an invalid path or
\* an invalid name the call fails with the validation error of the first
\* failing check, the open step never runs and no handle is open.
ValidationBeforeOpen ==
    (pc # "start" /\ (PathInvalid \/ NameInvalid)) =>
        /\ pc = "failed"
        /\ joystick = NoJoystick
        /\ err = IF PathInvalid THEN "InvalidPathError" ELSE "InvalidNameError"
        /\ ioLog = <<>>
        /\ file = Nil
        /\ openHandles = 0

\* C2 witness: a name one byte longer than the field was refused
LongNameRefused ==
    /\ pc = "failed"
    /\ ~PathInvalid
    /\ Len(name) = uinputMaxNameSize + 1
    /\ err = "InvalidNameError"

\* positions of the log where an axis code outside the table was registered
OutOfRangeCalls ==
    {i \in 1..Len(ioLog) : ioLog[i].req = uiSetAbsBit /\ ioLog[i].arg >= absSize}

\* C3: an axis id outside the range tables.  Its registration call fails,
\* construction ends with CapabilityRegistrationError and the handle closed
\* right after that call, and the tables are only ever indexed below their
\* size.
AxisOutOfRangeFails ==
    /\ \A id \in indexed : id < absSize
    /\ pc # "panic"
    /\ pc \in {"activate", "active"} => \A id \in AxisCodes : id < absSize
    /\ \A i \in OutOfRangeCalls :
          /\ ~ioLog[i].ok
          /\ ioLog[i].arg \notin indexed \cup absbits
          /\ pc = "failed"
          /\ err = "CapabilityRegistrationError"
          /\ joystick = NoJoystick
          /\ file = "closed"
          /\ openHandles = 0
          /\ Len(ioLog) = i + 1
          /\ ioLog[i + 1].op = "close"

\* C3 witness: the second declared axis is outside the range, the first one
\* was registered
SecondAxisOutOfRange ==
    /\ OutOfRangeCalls # {}
    /\ Len(axes) = 2
    /\ axes[1].ID \in indexed
    /\ axes[2].ID >= absSize
    /\ pc = "failed"

CloseCalls == SelectSeq(calls, LAMBDA c : c.op = "Close")

\* C4: CreateJoystick followed by Close.  The Close returns no error and no
\* handle is left open; the handle was opened once and closed once, and it
\* is never open again afterwards.
CreateThenClose ==
    (calls # <<>> /\ calls[1].op = "Close") =>
        /\ ~calls[1].err
        /\ file = "closed"
        /\ openHandles = 0
        /\ Len(SuccessfulCloses) = 1
        /\ Len(SelectSeq(ioLog, LAMBDA r : r.op = "open" /\ r.ok)) = 1
        /\ \A i, j \in 1..Len(ioLog) :
              (ioLog[i].op = "close" /\ ioLog[i].ok /\ i < j) =>
                  (ioLog[j].op # "open" /\ ~ioLog[j].ok)

\* C4 witness: a device with two axes and two buttons was created and closed
CreatedAndClosed ==
    /\ Len(calls) = 1
    /\ calls[1].op = "Close"
    /\ Len(axes) = 2
    /\ Len(buttons) = 2
    /\ file = "closed"
WrittenBy(id) == {p \in 1..Len(stream) : writer[p] = id}
RuntimeWrites == {"SetAxis", "SetButton"}

\* C5: every SetAxis(a, V) that returned no error appended exactly the
\* absolute-axis record with code a, value V and zero time, immediately
\* followed by one synchronization record, and nothing else (serialized calls).
SetAxisEmitsPair ==
    \A i \in 1..Len(calls) :
        LET c == calls[i]
        IN  (c.op = "SetAxis" /\ ~c.err) =>
                /\ Len(stream) >= c.before + 2
                /\ stream[c.before + 1] = <<0, 0, evAbs, c.code, c.value>>
                /\ stream[c.before + 2] = <<0, 0, evSyn, synReport, 0>>
                /\ WrittenBy(c.id) = {c.before + 1, c.before + 2}

\* C5 witness: a successful SetAxis with a value above the declared maximum
\* of the axis
AxisValueAboveMax ==
    \E i \in 1..Len(calls) :
        /\ calls[i].op = "SetAxis"
        /\ ~calls[i].err
        /\ calls[i].code = axes[1].ID
        /\ calls[i].value > axes[1].Max

\* the SetButton calls whose record the device received
ButtonWriters ==
    {calls[i].id : i \in {j \in 1..Len(calls) :
                            calls[j].op = "SetButton" /\ OpsBy(calls[j].id)[1].ok}}
        \cup {th[t].id : t \in {u \in Threads : th[u].pc = "sync" /\ th[u].op = "SetButton"}}

\* C6: SetButton neither coalesces nor debounces.  Every SetButton that
\* returned no error appended its key record (value 1 for pressed, 0 for
\* released) immediately followed by one synchronization record, in call
\* order, and the device received one key record per SetButton whose record
\* write succeeded, repeated states included (serialized calls).
SetButtonNoCoalescing ==
    /\ \A i \in 1..Len(calls) :
        LET c == calls[i]
        IN  (c.op = "SetButton" /\ ~c.err) =>
                /\ Len(stream) >= c.before + 2
                /\ stream[c.before + 1] = <<0, 0, evKey, c.code, IF c.on THEN 1 ELSE 0>>
                /\ stream[c.before + 2] = <<0, 0, evSyn, synReport, 0>>
                /\ WrittenBy(c.id) = {c.before + 1, c.before + 2}
                /\ \A j \in 1..(i - 1) :
                       (calls[j].op = "SetButton" /\ ~calls[j].err) =>
                           calls[j].before + 2 <= c.before
    /\ Cardinality({p \in 1..Len(stream) : stream[p][3] = evKey})
           = Cardinality(ButtonWriters)

\* C6 witness: the same button was pressed twice in a row and the device
\* received key 1, sync, key 1, sync
RepeatedPress ==
    /\ Len(calls) = 2
    /\ \A i \in {1, 2} : calls[i].op = "SetButton" /\ calls[i].on /\ ~calls[i].err
    /\ calls[1].code = calls[2].code
    /\ Len(stream) = 4
    /\ stream[1] = stream[3]

\* C7: SetAxis and SetButton return an error exactly when one of their two
\* writes failed.  After a failed record write no sync write is made and the
\* device received nothing from the call; after a failed sync write the
\* record stays in the stream; with both writes successful the call returns
\* no error.
WriteErrorsSurface ==
    \A i \in 1..Len(calls) :
        LET c == calls[i]
            W == OpsBy(c.id)
        IN  c.op \in RuntimeWrites =>
                /\ Len(W) \in {1, 2}
                /\ \A k \in 1..Len(W) : W[k].op = "write"
                /\ ~W[1].ok => Len(W) = 1 /\ c.err /\ WrittenBy(c.id) = {}
                /\ W[1].ok =>
                      /\ Len(W) = 2
                      /\ c.err <=> ~W[2].ok
                      /\ stream[c.before + 1][4] = c.code
                      /\ WrittenBy(c.id) = IF W[2].ok THEN {c.before + 1, c.before + 2}
                                           ELSE {c.before + 1}

\* C7 witness: on the open device file the record write succeeded and the
\* sync write failed
SyncFailedAfterRecord ==
    /\ file = "open"
    /\ \E i \in 1..Len(calls) :
        /\ calls[i].op \in RuntimeWrites
        /\ calls[i].err
        /\ Len(OpsBy(calls[i].id)) = 2
        /\ WrittenBy(calls[i].id) = {Len(stream)}

\* C8: no already-closed guard.  A SetAxis or SetButton made after a Close
\* that succeeded still makes its write on the closed device file, returns
\* the error of that write, adds nothing to the event stream and leaves the
\* device file closed.
NoClosedGuard ==
    /\ \A t \in Threads : file = "closed" => th[t].pc = "idle"
    /\ \A i, j \in 1..Len(calls) :
        (i < j /\ calls[i].op = "Close" /\ ~calls[i].err /\ calls[j].op \in RuntimeWrites) =>
            LET W == OpsBy(calls[j].id)
            IN  /\ Len(W) = 1
                /\ W[1].op = "write"
                /\ ~W[1].ok
                /\ calls[j].err
                /\ WrittenBy(calls[j].id) = {}
                /\ Len(stream) = calls[i].before
                /\ file = "closed"
                /\ pc = "active"

\* C8 witness: Close, then SetAxis, then SetButton
WritesAfterClose ==
    /\ Len(calls) = 3
    /\ calls[1].op = "Close"
    /\ calls[2].op = "SetAxis"
    /\ calls[3].op = "SetButton"

\* C9: Close twice.  Every Close makes exactly one close of the device file
\* and returns what it reports: the first succeeds, every later one returns
\* the already-closed error, changes nothing and releases nothing again.
CloseTwice ==
    /\ \A k \in 1..Len(CloseCalls) :
        LET W == OpsBy(CloseCalls[k].id)
        IN  /\ Len(W) = 1
            /\ W[1].op = "close"
            /\ CloseCalls[k].err = ~W[1].ok
            /\ CloseCalls[k].err = (k > 1)
    /\ Len(SuccessfulCloses) <= 1
    /\ CloseCalls # <<>> => file = "closed" /\ openHandles = 0
    /\ openHandles \in {0, 1}

\* C9 witness: two Close calls in a row
ClosedTwice ==
    /\ Len(calls) = 2
    /\ calls[1].op = "Close"
    /\ calls[2].op = "Close"
    /\ calls[2].err

\* C10: no internal locking.  While one call is between its record write and
\* its sync write, every call of another caller can run: SetAxis, SetButton
\* and Close are all enabled for it.
NoInternalLocking ==
    \A t, u \in Threads :
        (t # u /\ th[t].pc = "sync" /\ th[u].pc = "idle" /\ Started < MaxConcCalls) =>
            /\ ENABLED SetAxis(u, MaxConcCalls, ConcAxisIDs)
            /\ ENABLED SetButton(u, MaxConcCalls, ConcButtonIDs)
            /\ ENABLED Close(u, MaxConcCalls)

\* C10 witness: the event stream is corrupted and a Close landed inside a
\* call: the record of one call is followed by the record of another call,
\* and the device file was closed while the first call waits to write its sync
CorruptedStream ==
    /\ Len(stream) >= 2
    /\ writer[1] # writer[2]
    /\ stream[1][3] # evSyn
    /\ stream[2][3] # evSyn
    /\ \E t \in Threads : th[t].pc = "sync" /\ th[t].id = writer[1]
    /\ file = "closed"

\* the calls a finished or running operation made: none of them after its
\* first failure, except the close of a failed construction
StopsAtFirstFailure(W, closes) ==
    \A k \in 1..Len(W) :
        ~W[k].ok =>
            \/ k = Len(W)
            \/ /\ closes
               /\ W[k].op # "open"
               /\ k = Len(W) - 1
               /\ W[Len(W)].op = "close"

\* the number of handle calls CreateJoystick makes when nothing fails
ConstructionCalls == Len(buttons) + Len(axes) + 4

\* C11: no I/O failure is retried or swallowed.  Every operation stops at
\* the first open, control-code call, write or close that fails and returns
\* an error; after it the operation makes no further call on the handle,
\* but for the close of a failed construction; and no operation makes more
\* calls than its steps (one per step for construction, two writes for
\* SetAxis and SetButton, one close for Close).
NoRetryNoSwallow ==
    /\ LET W0 == OpsBy(0)
       IN  /\ StopsAtFirstFailure(W0, TRUE)
           /\ Len(W0) <= ConstructionCalls + 1
           /\ Cardinality({k \in 1..Len(W0) : W0[k].op = "open"}) <= 1
           /\ Cardinality({k \in 1..Len(W0) : W0[k].op = "close"}) <= 1
           /\ Cardinality({k \in 1..Len(W0) : W0[k].op = "create"}) <= 1
           /\ (\E k \in 1..Len(W0) : ~W0[k].ok) =>
                  pc = "failed" /\ err # Nil /\ joystick = NoJoystick
    /\ \A i \in 1..Len(calls) :
        LET c == calls[i]
            W == OpsBy(c.id)
        IN  /\ StopsAtFirstFailure(W, FALSE)
            /\ c.err <=> \E k \in 1..Len(W) : ~W[k].ok
            /\ Len(W) <= IF c.op = "Close" THEN 1 ELSE 2
            /\ \A k \in 1..Len(W) :
                   W[k].op = IF c.op = "Close" THEN "close" ELSE "write"
    /\ \A t \in Threads :
        th[t].pc = "sync" =>
            /\ Len(OpsBy(th[t].id)) = 1
            /\ OpsBy(th[t].id)[1].ok

\* C11 witness: the registration of the button failed in construction: the
\* log ends with the failed control-code call and the close of the handle
ButtonFailureNotRetried ==
    /\ pc = "failed"
    /\ Len(ioLog) = 4
    /\ ioLog[3].req = uiSetKeyBit
    /\ ~ioLog[3].ok
    /\ ioLog[4].op = "close"

\* the handle calls of a construction in which nothing fails, in order
ExpectedCalls ==
    <<[op |-> "open", req |-> Nil, arg |-> 0],
      [op |-> "ioctl", req |-> uiSetEvBit, arg |-> evKey]>>
    \o [i \in 1..Len(buttons) |->
           [op |-> "ioctl", req |-> uiSetKeyBit, arg |-> buttons[i].ID]]
    \o <<[op |-> "ioctl", req |-> uiSetEvBit, arg |-> evAbs]>>
    \o [i \in 1..Len(axes) |->
           [op |-> "ioctl", req |-> uiSetAbsBit, arg |-> axes[i].ID]]
    \o <<[op |-> "create", req |-> uiDevCreate, arg |-> 0]>>

\* the calls construction made on the handle, its close left out
IssuedCalls == SelectSeq(OpsBy(0), LAMBDA r : r.op # "close")

\* C12: construction issues its handle calls in a fixed order: open, the key
\* class, the declared buttons in declaration order, the abs class, the
\* declared axes in declaration order, activation.  What was issued is always
\* a prefix of that list in which every call but the last one succeeded, so
\* no button precedes the key class, no axis the abs class, and activation
\* comes after every registration succeeded.
ConstructionOrder ==
    /\ Len(IssuedCalls) <= Len(ExpectedCalls)
    /\ \A k \in 1..Len(IssuedCalls) :
        /\ IssuedCalls[k].op = ExpectedCalls[k].op
        /\ IssuedCalls[k].req = ExpectedCalls[k].req
        /\ IssuedCalls[k].arg = ExpectedCalls[k].arg
        /\ k < Len(IssuedCalls) => IssuedCalls[k].ok
    /\ keybits # {} => evKey \in evbits
    /\ absbits # {} => evAbs \in evbits
    /\ dev # {} => ButtonCodes \subseteq keybits /\ AxisCodes \subseteq absbits

\* C12 witness: a device with two different buttons and two different axes
\* was activated
OrderedConstruction ==
    /\ pc = "active"
    /\ Len(buttons) = 2
    /\ buttons[1].ID # buttons[2].ID
    /\ Len(axes) = 2
    /\ axes[1].ID # axes[2].ID
    /\ Len(IssuedCalls) = 8

\* the range the declaration gives axis id i: that of its last entry with
\* that id, <<0, 0>> when no entry has it
DeclaredRange(i) ==
    LET P == {k \in 1..Len(axes) : axes[k].ID = i}
    IN  IF P = {} THEN <<0, 0>>
        ELSE LET last == CHOOSE k \in P : \A q \in P : q <= k
             IN  <<axes[last].Min, axes[last].Max>>

\* C13: the range tables handed to activation are dense tables of absSize
\* entries fixed by the ordered declaration, last entry wins: entry i is the
\* Min/Max of the last declared axis with ID i, and (0, 0) for an id no
\* declared axis uses.
RangeTablesLastWins ==
    /\ pc \in {"activate", "active"} =>
        /\ DOMAIN absMin = 0..(absSize - 1)
        /\ DOMAIN absMax = 0..(absSize - 1)
        /\ \A i \in 0..(absSize - 1) : <<absMin[i], absMax[i]>> = DeclaredRange(i)
    /\ \A d \in dev :
        /\ DOMAIN d.Absmin = 0..(absSize - 1)
        /\ DOMAIN d.Absmax = 0..(absSize - 1)
        /\ \A i \in 0..(absSize - 1) : <<d.Absmin[i], d.Absmax[i]>> = DeclaredRange(i)

\* C13 witness: a device was activated whose declaration names the same axis
\* id twice with different ranges
DuplicateAxisActivated ==
    /\ pc = "active"
    /\ err = Nil
    /\ dev # {}
    /\ Len(axes) = 2
    /\ axes[1].ID = axes[2].ID
    /\ axes[1].Min # axes[2].Min

\* the record a runtime call writes for its arguments
RecordOf(c) ==
    IF c.op = "SetAxis" THEN <<0, 0, evAbs, c.code, c.value>>
    ELSE <<0, 0, evKey, c.code, IF c.on THEN 1 ELSE 0>>

\* C14: SetAxis and SetButton never look at the declaration.  For every id,
\* declared or not, the call makes its record write, the device receives the
\* record with that code and then the sync when the writes succeed, and the
\* call returns an error exactly when one of its writes failed.  And no step
\* taken once the joystick is returned changes the declaration, the name, the
\* registered classes, buttons and axes, the range tables or the created
\* device.
RuntimeIgnoresDeclaration ==
    /\ [](\A i \in 1..Len(calls) :
            LET c == calls[i]
                W == OpsBy(c.id)
            IN  c.op \in RuntimeWrites =>
                    /\ Len(W) >= 1
                    /\ W[1].op = "write"
                    /\ c.err <=> \E k \in 1..Len(W) : ~W[k].ok
                    /\ W[1].ok => stream[c.before + 1] = RecordOf(c)
                    /\ ~c.err => stream[c.before + 2] = <<0, 0, evSyn, synReport, 0>>)
    /\ [][pc = "active" =>
             UNCHANGED <<pc, args, evbits, keybits, absbits, dev, absMin, absMax,
                         joystick, err>>]_vars

\* C14 witness: a SetAxis on an axis and a SetButton on a button that were
\* never declared both returned no error
UndeclaredIdsWritten ==
    /\ Len(calls) = 2
    /\ calls[1].op = "SetAxis"
    /\ calls[1].code \notin AxisCodes
    /\ ~calls[1].err
    /\ calls[2].op = "SetButton"
    /\ calls[2].code \notin ButtonCodes
    /\ ~calls[2].err
    /\ Len(stream) = 4
====
